---- MODULE Spec2Model ----
(***************************************************************************)
(* Model of the state-machine adapters of package rsm: RegularStateMachine,*)
(* ConcurrentStateMachine and OnDiskStateMachine, each wrapping a user     *)
(* state machine behind the IStateMachine interface.                       *)
(*                                                                         *)
(* One adapter instance is modelled.  Its variant is chosen at             *)
(* construction.  The wrapped machine is the environment: what it returns  *)
(* is drawn from small sets.  Every adapter call leaves a record of what    *)
(* it was given, what it handed to the wrapped machine, what the wrapped    *)
(* machine answered and what the adapter answered (or that it panicked).    *)
(***************************************************************************)
EXTENDS Integers, Sequences, FiniteSets, TLC

\* ---------------------------------------------------------------- bounds
MaxBatch == 2       \* longest batch handed to Update
MaxIndex == 2       \* applied indexes reported by the wrapped Open
MaxHash == 1        \* digests reported by the wrapped GetHash
NumThreads == 2     \* goroutines calling into one on-disk adapter
MaxOps == 2         \* operations put into one write batch before it is cleared

\* ---------------------------------------------------------------- values
Nil == "nil"
ErrNotImplemented == "ErrNotImplemented"
\* errors a wrapped machine may return
SMErrors == {"errA", ErrNotImplemented}
ErrOrNil == {Nil} \cup SMErrors

\* Entry.Cmd and Entry.Result are opaque to the adapters
Cmds == {"c1", "c2"}
ZeroResult == "r0"
Results == {ZeroResult, "r1"}
Indexes == 0..MaxIndex
Hashes == 0..MaxHash
Queries == {"q"}
Datas == {Nil, "d"}
Ctxs == {Nil, "ctx"}
\* stop channels a caller passes: one that stays open during the call and
\* one that is closed before the transfer completes
Stopped == "stopped"
StopChans == {"stopc", Stopped}
\* what the wrapped SaveSnapshot may answer, given the stop channel it is handed:
\* once the channel is closed it gives up with an error
SaveSnapshotErrs(stopc) == IF stopc = Stopped THEN SMErrors ELSE ErrOrNil
Threads == 1..NumThreads
\* the goroutine that makes the calls when calls come one at a time
MainThread == CHOOSE t \in Threads : \A u \in Threads : t <= u

\* sm.Entry: the command and the result Update fills in
Entry(c, r) == [Cmd |-> c, Result |-> r]
RECURSIVE SeqsUpTo(_, _)
SeqsUpTo(S, n) ==
    IF n = 0 THEN {<<>>}
    ELSE LET shorter == SeqsUpTo(S, n - 1)
         IN shorter \cup {Append(q, x) : q \in {p \in shorter : Len(p) = n - 1}, x \in S}
\* the batches a caller may pass: every entry arrives with a zero Result
Batches == SeqsUpTo({Entry(c, ZeroResult) : c \in Cmds}, MaxBatch)
\* a wrapped batch Update answers with the same entries, results filled in
FilledBatches(entries) ==
    {[i \in 1..Len(entries) |-> Entry(entries[i].Cmd, rs[i])] :
        rs \in [1..Len(entries) -> Results]}

\* pb.StateMachineType discriminants
RegularType == "pb.RegularStateMachine"
ConcurrentType == "pb.ConcurrentStateMachine"
OnDiskType == "pb.OnDiskStateMachine"
Variants == {"Regular", "Concurrent", "OnDisk"}

\* arguments and results, one shape for every operation
NoArgs == [entries |-> <<>>, cmd |-> Nil, query |-> Nil, ctx |-> Nil,
           io |-> Nil, fc |-> Nil, fs |-> Nil, stopc |-> Nil]
NoRet == [entries |-> <<>>, val |-> 0, data |-> Nil, flag |-> FALSE]

\* ------------------------------------------------- the key-value store's values
\* keys are byte strings; a range's bounds are keys too, stored or not
Keys == {<<0>>, <<0, 1>>, <<1>>}
Probes == Keys
NoKey == <<>>
Values == {"v1", "v2"}
IoErr == "ioErr"
OpErr == "opErr"

\* bytes.Compare
RECURSIVE Compare(_, _)
Compare(a, b) ==
    IF a = <<>> THEN (IF b = <<>> THEN 0 ELSE -1)
    ELSE IF b = <<>> THEN 1
    ELSE IF Head(a) < Head(b) THEN -1
    ELSE IF Head(a) > Head(b) THEN 1
    ELSE Compare(Tail(a), Tail(b))

\* pebbleWriteBatch: the operations in wb and the count field
BatchRefs == {"wbCtx", "wbNew"}
NewWriteBatch == [ops |-> <<>>, count |-> 0]
Contexts == {Nil, "ctxEmpty", "ctxHolding"}
\* ctx.GetWriteBatch(): the batch a context holds
ContextBatch(ctx) == IF ctx = "ctxHolding" THEN "wbCtx" ELSE Nil

KVResult(op, outcome, err) ==
    [op |-> op, outcome |-> outcome, err |-> err, fk |-> NoKey, lk |-> NoKey,
     inc |-> FALSE, key |-> NoKey, val |-> Nil, ref |-> Nil, visited |-> <<>>,
     answers |-> <<>>, applies |-> 0, batch |-> <<>>, count |-> 0]
NoKVCall == KVResult("none", "none", Nil)

VARIABLES
    variant,     \* which adapter type was constructed
    smCaps,      \* optional interfaces the wrapped machine satisfies
    h,           \* field h: non-nil iff TRUE
    na,          \* field na: non-nil iff TRUE
    opened,      \* OnDiskStateMachine.opened
    writers,     \* goroutines that have stored opened = true
    pc,          \* where each goroutine stands inside OnDiskStateMachine.Open
    smOpenBy,    \* wrapped Open invocations made on behalf of each goroutine
    openCalled,  \* some Open call has been made on the adapter
    openOK,      \* some Open call has returned without error
    smClosed,    \* the wrapped machine's Close has been called
    last,        \* the most recent completed adapter call
    \* a snapshot taken from one concurrent machine and recovered on a fresh one
    src,         \* the source machine's state: the commands applied to it
    captured,    \* the state the source machine keeps for its snapshot context
    atPrepare,   \* the source's state at the moment Prepare was called
    held,        \* the context Prepare returned to the caller
    passed,      \* the context the wrapped SaveSnapshot was entered with
    stream,      \* the bytes SaveSnapshot wrote
    fresh,       \* the state of the fresh machine
    racing,      \* an Update ran while Save was running
    snapPc,      \* how far the snapshot has got
    \* the pebble key-value store
    db,          \* the store: the value under each key, Nil when there is none
    wbs,         \* the write batches in use
    got,         \* the batch GetWriteBatch returned last
    committed,   \* the batches committed since they were made or cleared
    kvLast       \* the most recent call on the store or on a batch

\* the snapshot's source and destination machines
snap == <<src, captured, atPrepare, held, passed, stream, fresh, racing, snapPc>>

\* the key-value store and its write batches
kv == <<db, wbs, got, committed, kvLast>>

\* what lies outside the adapter and no adapter call changes
outside == <<smCaps, snap, kv>>

\* the state machine adapters and the machines they wrap
rsm == <<variant, smCaps, h, na, opened, writers, pc, smOpenBy,
         openCalled, openOK, smClosed, last, snap>>

vars == <<rsm, kv>>

adapter == <<variant, h, na, opened, writers>>
history == <<pc, smOpenBy, openCalled, openOK>>

\* ------------------------------------------------------------ call records
WrappedCall(op, args, ret, err) ==
    [op |-> op, args |-> args, ret |-> ret, err |-> err]

\* whether another goroutine is inside Open while goroutine t makes its call
DuringOpen(t) == \E u \in Threads \ {t} : pc[u] # "idle"

Return(op, t, args, ret, err, calls) ==
    [op |-> op, thread |-> t, during |-> DuringOpen(t), args |-> args,
     outcome |-> "return", ret |-> ret, err |-> err, msg |-> Nil, calls |-> calls]

Panic(op, t, args, msg) ==
    [op |-> op, thread |-> t, during |-> DuringOpen(t), args |-> args,
     outcome |-> "panic", ret |-> NoRet, err |-> Nil, msg |-> msg, calls |-> <<>>]

NoCall ==
    [op |-> "none", thread |-> MainThread, during |-> FALSE, args |-> NoArgs,
     outcome |-> "none", ret |-> NoRet, err |-> Nil, msg |-> Nil, calls |-> <<>>]

\* ------------------------------------------------------------ construction
\* h, ok := s.(sm.IHash); if ok { r.h = h }
ProbeHash(caps) == caps.hash
\* na, ok := s.(sm.IExtended); if ok { r.na = na }
ProbeExtended(caps) == caps.ext

NewRegularStateMachine(caps) ==
    [h |-> ProbeHash(caps), na |-> ProbeExtended(caps), opened |-> FALSE]
NewConcurrentStateMachine(caps) ==
    [h |-> ProbeHash(caps), na |-> ProbeExtended(caps), opened |-> FALSE]
NewOnDiskStateMachine(caps) ==
    [h |-> ProbeHash(caps), na |-> ProbeExtended(caps), opened |-> FALSE]

New(v, caps) ==
    CASE v = "Regular" -> NewRegularStateMachine(caps)
      [] v = "Concurrent" -> NewConcurrentStateMachine(caps)
      [] v = "OnDisk" -> NewOnDiskStateMachine(caps)

Init ==
    /\ variant \in Variants
    /\ smCaps \in [hash : BOOLEAN, ext : BOOLEAN]
    /\ h = New(variant, smCaps).h
    /\ na = New(variant, smCaps).na
    /\ opened = New(variant, smCaps).opened
    /\ writers = {}
    /\ pc = [t \in Threads |-> "idle"]
    /\ smOpenBy = [t \in Threads |-> 0]
    /\ openCalled = FALSE
    /\ openOK = FALSE
    /\ smClosed = FALSE
    /\ last = NoCall
    /\ src = {}
    /\ captured = {}
    /\ atPrepare = {}
    /\ held = Nil
    /\ passed = Nil
    /\ stream = <<>>
    /\ fresh = {}
    /\ racing = FALSE
    /\ snapPc = "idle"
    /\ db = [k \in Keys |-> Nil]
    /\ wbs = [b \in BatchRefs |-> NewWriteBatch]
    /\ got = Nil
    /\ committed = {}
    /\ kvLast = NoKVCall

\* ------------------------------------------------- RegularStateMachine
RegularStateMachine_Open ==
    /\ variant = "Regular"
    /\ last' = Panic("Open", MainThread, [NoArgs EXCEPT !.stopc = "stopc"],
                     "Open() called on RegularStateMachine")
    /\ UNCHANGED <<adapter, outside, smClosed, history>>

\* a guard that only rejects the empty batch
RegularStateMachine_Update_AtLeastOne(entries) ==
    /\ variant = "Regular"
    /\ LET args == [NoArgs EXCEPT !.entries = entries] IN
       IF Len(entries) < 1
       THEN last' = Panic("Update", MainThread, args, "len(entries) != 1")
       ELSE \E r \in Results, err \in ErrOrNil :
              last' = Return("Update", MainThread, args,
                             [NoRet EXCEPT !.entries = [entries EXCEPT ![1].Result = r]],
                             err,
                             <<WrappedCall("Update", [NoArgs EXCEPT !.cmd = entries[1].Cmd],
                                           [NoRet EXCEPT !.data = r], err)>>)
    /\ UNCHANGED <<adapter, outside, smClosed, history>>

RegularStateMachine_Update(entries) ==
    /\ variant = "Regular"
    /\ LET args == [NoArgs EXCEPT !.entries = entries] IN
       IF Len(entries) # 1
       THEN last' = Panic("Update", MainThread, args, "len(entries) != 1")
       ELSE \E r \in Results, err \in ErrOrNil :
              last' = Return("Update", MainThread, args,
                             [NoRet EXCEPT !.entries = [entries EXCEPT ![1].Result = r]],
                             err,
                             <<WrappedCall("Update", [NoArgs EXCEPT !.cmd = entries[1].Cmd],
                                           [NoRet EXCEPT !.data = r], err)>>)
    /\ UNCHANGED <<adapter, outside, smClosed, history>>

RegularStateMachine_Lookup(query) ==
    /\ variant = "Regular"
    /\ LET args == [NoArgs EXCEPT !.query = query] IN
       \E d \in Datas, err \in ErrOrNil :
          last' = Return("Lookup", MainThread, args, [NoRet EXCEPT !.data = d], err,
                         <<WrappedCall("Lookup", args, [NoRet EXCEPT !.data = d], err)>>)
    /\ UNCHANGED <<adapter, outside, smClosed, history>>

\* the nil check made on the wrong capability field
RegularStateMachine_NALookup_ChecksHash(query) ==
    /\ variant = "Regular"
    /\ LET args == [NoArgs EXCEPT !.query = query] IN
       IF ~h
       THEN last' = Return("NALookup", MainThread, args, NoRet, ErrNotImplemented, <<>>)
       ELSE \E d \in Datas, err \in ErrOrNil :
              last' = Return("NALookup", MainThread, args, [NoRet EXCEPT !.data = d], err,
                             <<WrappedCall("NALookup", args, [NoRet EXCEPT !.data = d], err)>>)
    /\ UNCHANGED <<adapter, outside, smClosed, history>>

RegularStateMachine_NALookup(query) ==
    /\ variant = "Regular"
    /\ LET args == [NoArgs EXCEPT !.query = query] IN
       IF ~na
       THEN last' = Return("NALookup", MainThread, args, NoRet, ErrNotImplemented, <<>>)
       ELSE \E d \in Datas, err \in ErrOrNil :
              last' = Return("NALookup", MainThread, args, [NoRet EXCEPT !.data = d], err,
                             <<WrappedCall("NALookup", args, [NoRet EXCEPT !.data = d], err)>>)
    /\ UNCHANGED <<adapter, outside, smClosed, history>>

RegularStateMachine_Sync ==
    /\ variant = "Regular"
    /\ last' = Panic("Sync", MainThread, NoArgs, "Sync called on RegularStateMachine")
    /\ UNCHANGED <<adapter, outside, smClosed, history>>

RegularStateMachine_Prepare ==
    /\ variant = "Regular"
    /\ last' = Panic("Prepare", MainThread, NoArgs,
                     "PrepareSnapshot called on RegularStateMachine")
    /\ UNCHANGED <<adapter, outside, smClosed, history>>

\* Save without the check on ctx
RegularStateMachine_Save_AnyCtx(ctx, stopc) ==
    /\ variant = "Regular"
    /\ LET args == [NoArgs EXCEPT !.ctx = ctx, !.io = "w", !.fc = "fc", !.stopc = stopc] IN
       \E err \in SaveSnapshotErrs(stopc) :
          last' = Return("Save", MainThread, args, NoRet, err,
                         <<WrappedCall("SaveSnapshot",
                              [NoArgs EXCEPT !.io = "w", !.fc = "fc", !.stopc = stopc],
                              NoRet, err)>>)
    /\ UNCHANGED <<adapter, outside, smClosed, history>>

RegularStateMachine_Save(ctx, stopc) ==
    /\ variant = "Regular"
    /\ LET args == [NoArgs EXCEPT !.ctx = ctx, !.io = "w", !.fc = "fc", !.stopc = stopc] IN
       IF ctx # Nil
       THEN last' = Panic("Save", MainThread, args, "ctx is not nil")
       ELSE \E err \in SaveSnapshotErrs(stopc) :
              last' = Return("Save", MainThread, args, NoRet, err,
                             <<WrappedCall("SaveSnapshot",
                                  [NoArgs EXCEPT !.io = "w", !.fc = "fc", !.stopc = stopc],
                                  NoRet, err)>>)
    /\ UNCHANGED <<adapter, outside, smClosed, history>>

RegularStateMachine_Recover(stopc) ==
    /\ variant = "Regular"
    /\ LET args == [NoArgs EXCEPT !.io = "r", !.fs = "fs", !.stopc = stopc] IN
       \E err \in ErrOrNil :
          last' = Return("Recover", MainThread, args, NoRet, err,
                         <<WrappedCall("RecoverFromSnapshot", args, NoRet, err)>>)
    /\ UNCHANGED <<adapter, outside, smClosed, history>>

RegularStateMachine_Close ==
    /\ variant = "Regular"
    /\ \E err \in ErrOrNil :
          last' = Return("Close", MainThread, NoArgs, NoRet, err,
                         <<WrappedCall("Close", NoArgs, NoRet, err)>>)
    /\ smClosed' = TRUE
    /\ UNCHANGED <<adapter, outside, history>>

RegularStateMachine_GetHash ==
    /\ variant = "Regular"
    /\ IF ~h
       THEN last' = Return("GetHash", MainThread, NoArgs, NoRet, ErrNotImplemented, <<>>)
       ELSE \E v \in Hashes, err \in ErrOrNil :
              last' = Return("GetHash", MainThread, NoArgs, [NoRet EXCEPT !.val = v], err,
                             <<WrappedCall("GetHash", NoArgs, [NoRet EXCEPT !.val = v], err)>>)
    /\ UNCHANGED <<adapter, outside, smClosed, history>>

RegularStateMachine_Concurrent ==
    /\ variant = "Regular"
    /\ last' = Return("Concurrent", MainThread, NoArgs, [NoRet EXCEPT !.flag = FALSE], Nil, <<>>)
    /\ UNCHANGED <<adapter, outside, smClosed, history>>

RegularStateMachine_OnDisk ==
    /\ variant = "Regular"
    /\ last' = Return("OnDisk", MainThread, NoArgs, [NoRet EXCEPT !.flag = FALSE], Nil, <<>>)
    /\ UNCHANGED <<adapter, outside, smClosed, history>>

RegularStateMachine_Type ==
    /\ variant = "Regular"
    /\ last' = Return("Type", MainThread, NoArgs, [NoRet EXCEPT !.data = RegularType], Nil, <<>>)
    /\ UNCHANGED <<adapter, outside, smClosed, history>>

RegularNext ==
    \/ RegularStateMachine_Open
    \/ \E entries \in Batches : RegularStateMachine_Update(entries)
    \/ \E q \in Queries : RegularStateMachine_Lookup(q)
    \/ \E q \in Queries : RegularStateMachine_NALookup(q)
    \/ RegularStateMachine_Sync
    \/ RegularStateMachine_Prepare
    \/ \E ctx \in Ctxs, stopc \in StopChans : RegularStateMachine_Save(ctx, stopc)
    \/ \E stopc \in StopChans : RegularStateMachine_Recover(stopc)
    \/ RegularStateMachine_Close
    \/ RegularStateMachine_GetHash
    \/ RegularStateMachine_Concurrent
    \/ RegularStateMachine_OnDisk
    \/ RegularStateMachine_Type

\* ------------------------------------------------- ConcurrentStateMachine
ConcurrentStateMachine_Open ==
    /\ variant = "Concurrent"
    /\ last' = Panic("Open", MainThread, [NoArgs EXCEPT !.stopc = "stopc"],
                     "Open() called on RegularStateMachine")
    /\ UNCHANGED <<adapter, outside, smClosed, history>>

\* Update handing the wrapped machine the first entry only
ConcurrentStateMachine_Update_FirstOnly(entries) ==
    /\ variant = "Concurrent"
    /\ LET args == [NoArgs EXCEPT !.entries = entries]
           first == SubSeq(entries, 1, IF Len(entries) = 0 THEN 0 ELSE 1)
       IN
       \E out \in FilledBatches(first), err \in ErrOrNil :
          last' = Return("Update", MainThread, args, [NoRet EXCEPT !.entries = out], err,
                         <<WrappedCall("Update", [NoArgs EXCEPT !.entries = first],
                                       [NoRet EXCEPT !.entries = out], err)>>)
    /\ UNCHANGED <<adapter, outside, smClosed, history>>

ConcurrentStateMachine_Update(entries) ==
    /\ variant = "Concurrent"
    /\ LET args == [NoArgs EXCEPT !.entries = entries] IN
       \E out \in FilledBatches(entries), err \in ErrOrNil :
          last' = Return("Update", MainThread, args, [NoRet EXCEPT !.entries = out], err,
                         <<WrappedCall("Update", args, [NoRet EXCEPT !.entries = out], err)>>)
    /\ UNCHANGED <<adapter, outside, smClosed, history>>

ConcurrentStateMachine_Lookup(query) ==
    /\ variant = "Concurrent"
    /\ LET args == [NoArgs EXCEPT !.query = query] IN
       \E d \in Datas, err \in ErrOrNil :
          last' = Return("Lookup", MainThread, args, [NoRet EXCEPT !.data = d], err,
                         <<WrappedCall("Lookup", args, [NoRet EXCEPT !.data = d], err)>>)
    /\ UNCHANGED <<adapter, outside, smClosed, history>>

ConcurrentStateMachine_NALookup(query) ==
    /\ variant = "Concurrent"
    /\ LET args == [NoArgs EXCEPT !.query = query] IN
       IF ~na
       THEN last' = Return("NALookup", MainThread, args, NoRet, ErrNotImplemented, <<>>)
       ELSE \E d \in Datas, err \in ErrOrNil :
              last' = Return("NALookup", MainThread, args, [NoRet EXCEPT !.data = d], err,
                             <<WrappedCall("NALookup", args, [NoRet EXCEPT !.data = d], err)>>)
    /\ UNCHANGED <<adapter, outside, smClosed, history>>

\* Sync answering with an error value instead of panicking
ConcurrentStateMachine_Sync_Error ==
    /\ variant = "Concurrent"
    /\ last' = Return("Sync", MainThread, NoArgs, NoRet, ErrNotImplemented, <<>>)
    /\ UNCHANGED <<adapter, outside, smClosed, history>>

ConcurrentStateMachine_Sync ==
    /\ variant = "Concurrent"
    /\ last' = Panic("Sync", MainThread, NoArgs, "Sync called on ConcurrentStateMachine")
    /\ UNCHANGED <<adapter, outside, smClosed, history>>

ConcurrentStateMachine_Prepare ==
    /\ variant = "Concurrent"
    /\ \E c \in Ctxs, err \in ErrOrNil :
          last' = Return("Prepare", MainThread, NoArgs, [NoRet EXCEPT !.data = c], err,
                         <<WrappedCall("PrepareSnapshot", NoArgs, [NoRet EXCEPT !.data = c], err)>>)
    /\ UNCHANGED <<adapter, outside, smClosed, history>>

\* Save handing the wrapped machine a stop channel of its own
ConcurrentStateMachine_Save_OwnStopper(ctx, stopc) ==
    /\ variant = "Concurrent"
    /\ LET args == [NoArgs EXCEPT !.ctx = ctx, !.io = "w", !.fc = "fc", !.stopc = stopc]
           own == [args EXCEPT !.stopc = "stopc"] IN
       \E err \in SaveSnapshotErrs(own.stopc) :
          last' = Return("Save", MainThread, args, NoRet, err,
                         <<WrappedCall("SaveSnapshot", own, NoRet, err)>>)
    /\ UNCHANGED <<adapter, outside, smClosed, history>>

ConcurrentStateMachine_Save(ctx, stopc) ==
    /\ variant = "Concurrent"
    /\ LET args == [NoArgs EXCEPT !.ctx = ctx, !.io = "w", !.fc = "fc", !.stopc = stopc] IN
       \E err \in SaveSnapshotErrs(stopc) :
          last' = Return("Save", MainThread, args, NoRet, err,
                         <<WrappedCall("SaveSnapshot", args, NoRet, err)>>)
    /\ UNCHANGED <<adapter, outside, smClosed, history>>

ConcurrentStateMachine_Recover(stopc) ==
    /\ variant = "Concurrent"
    /\ LET args == [NoArgs EXCEPT !.io = "r", !.fs = "fs", !.stopc = stopc] IN
       \E err \in ErrOrNil :
          last' = Return("Recover", MainThread, args, NoRet, err,
                         <<WrappedCall("RecoverFromSnapshot", args, NoRet, err)>>)
    /\ UNCHANGED <<adapter, outside, smClosed, history>>

\* Close dropping the wrapped machine's error
ConcurrentStateMachine_Close_Swallow ==
    /\ variant = "Concurrent"
    /\ \E err \in ErrOrNil :
          last' = Return("Close", MainThread, NoArgs, NoRet, Nil,
                         <<WrappedCall("Close", NoArgs, NoRet, err)>>)
    /\ smClosed' = TRUE
    /\ UNCHANGED <<adapter, outside, history>>

ConcurrentStateMachine_Close ==
    /\ variant = "Concurrent"
    /\ \E err \in ErrOrNil :
          last' = Return("Close", MainThread, NoArgs, NoRet, err,
                         <<WrappedCall("Close", NoArgs, NoRet, err)>>)
    /\ smClosed' = TRUE
    /\ UNCHANGED <<adapter, outside, history>>

ConcurrentStateMachine_GetHash ==
    /\ variant = "Concurrent"
    /\ IF ~h
       THEN last' = Return("GetHash", MainThread, NoArgs, NoRet, ErrNotImplemented, <<>>)
       ELSE \E v \in Hashes, err \in ErrOrNil :
              last' = Return("GetHash", MainThread, NoArgs, [NoRet EXCEPT !.val = v], err,
                             <<WrappedCall("GetHash", NoArgs, [NoRet EXCEPT !.val = v], err)>>)
    /\ UNCHANGED <<adapter, outside, smClosed, history>>

ConcurrentStateMachine_Concurrent ==
    /\ variant = "Concurrent"
    /\ last' = Return("Concurrent", MainThread, NoArgs, [NoRet EXCEPT !.flag = TRUE], Nil, <<>>)
    /\ UNCHANGED <<adapter, outside, smClosed, history>>

ConcurrentStateMachine_OnDisk ==
    /\ variant = "Concurrent"
    /\ last' = Return("OnDisk", MainThread, NoArgs, [NoRet EXCEPT !.flag = FALSE], Nil, <<>>)
    /\ UNCHANGED <<adapter, outside, smClosed, history>>

ConcurrentStateMachine_Type ==
    /\ variant = "Concurrent"
    /\ last' = Return("Type", MainThread, NoArgs, [NoRet EXCEPT !.data = ConcurrentType], Nil, <<>>)
    /\ UNCHANGED <<adapter, outside, smClosed, history>>

ConcurrentNext ==
    \/ ConcurrentStateMachine_Open
    \/ \E entries \in Batches : ConcurrentStateMachine_Update(entries)
    \/ \E q \in Queries : ConcurrentStateMachine_Lookup(q)
    \/ \E q \in Queries : ConcurrentStateMachine_NALookup(q)
    \/ ConcurrentStateMachine_Sync
    \/ ConcurrentStateMachine_Prepare
    \/ \E ctx \in Ctxs, stopc \in StopChans : ConcurrentStateMachine_Save(ctx, stopc)
    \/ \E stopc \in StopChans : ConcurrentStateMachine_Recover(stopc)
    \/ ConcurrentStateMachine_Close
    \/ ConcurrentStateMachine_GetHash
    \/ ConcurrentStateMachine_Concurrent
    \/ ConcurrentStateMachine_OnDisk
    \/ ConcurrentStateMachine_Type

\* ------------------------------------------------- OnDiskStateMachine
\* The adapter has no lock and no atomic: s.opened is a plain bool.  A
\* goroutine that stored it reads true; before any store every goroutine reads
\* false; a goroutine that did not store it itself reads it in a data race with
\* the store and may see either value.
Observe(t) ==
    IF t \in writers THEN {TRUE}
    ELSE IF writers = {} THEN {FALSE}
    ELSE {FALSE, TRUE}

OpenArgs == [NoArgs EXCEPT !.stopc = "stopc"]
OpenPanicMsg == "Open called more than once on OnDiskStateMachine"

\* return applied, err: the index kept when the wrapped Open failed
OpenResult_KeepsIndex(t, applied, err) ==
    Return("Open", t, OpenArgs, [NoRet EXCEPT !.val = applied], err,
           <<WrappedCall("Open", OpenArgs, [NoRet EXCEPT !.val = applied], err)>>)

\* what Open returns once the wrapped Open has answered (applied, err)
OpenResult(t, applied, err) ==
    Return("Open", t, OpenArgs,
           [NoRet EXCEPT !.val = IF err # Nil THEN 0 ELSE applied],
           err,
           <<WrappedCall("Open", OpenArgs, [NoRet EXCEPT !.val = applied], err)>>)

\* Open without the check on s.opened
OnDiskStateMachine_Open_Reopen(t) ==
    /\ variant = "OnDisk"
    /\ pc[t] = "idle"
    /\ openCalled' = TRUE
    /\ opened' = TRUE
    /\ writers' = writers \cup {t}
    /\ smOpenBy' = [smOpenBy EXCEPT ![t] = @ + 1]
    /\ \E applied \in Indexes, err \in ErrOrNil :
          /\ last' = Return("Open", t, OpenArgs,
                            [NoRet EXCEPT !.val = IF err # Nil THEN 0 ELSE applied], err,
                            <<WrappedCall("Open", OpenArgs, [NoRet EXCEPT !.val = applied], err)>>)
          /\ openOK' = (openOK \/ err = Nil)
    /\ UNCHANGED <<variant, outside, smClosed, h, na, pc>>

\* Open as one uninterrupted call
OnDiskStateMachine_Open(t) ==
    /\ variant = "OnDisk"
    /\ pc[t] = "idle"
    /\ openCalled' = TRUE
    /\ \E seen \in Observe(t) :
          IF seen
          THEN /\ last' = Panic("Open", t, OpenArgs, OpenPanicMsg)
               /\ UNCHANGED <<opened, writers, smOpenBy, openOK>>
          ELSE /\ opened' = TRUE
               /\ writers' = writers \cup {t}
               /\ smOpenBy' = [smOpenBy EXCEPT ![t] = @ + 1]
               /\ \E applied \in Indexes, err \in ErrOrNil :
                     /\ last' = OpenResult(t, applied, err)
                     /\ openOK' = (openOK \/ err = Nil)
    /\ UNCHANGED <<variant, outside, smClosed, h, na, pc>>

\* Open statement by statement, for goroutines that interleave
\* if s.opened { panic(...) }
OnDiskStateMachine_Open_guard(t) ==
    /\ variant = "OnDisk"
    /\ pc[t] = "idle"
    /\ openCalled' = TRUE
    /\ \E seen \in Observe(t) :
          IF seen
          THEN /\ last' = Panic("Open", t, OpenArgs, OpenPanicMsg)
               /\ pc' = pc
          ELSE /\ pc' = [pc EXCEPT ![t] = "guarded"]
               /\ last' = last
    /\ UNCHANGED <<adapter, outside, smClosed, smOpenBy, openOK>>

\* the store to s.opened left out
OnDiskStateMachine_Open_store_Skipped(t) ==
    /\ variant = "OnDisk"
    /\ pc[t] = "guarded"
    /\ pc' = [pc EXCEPT ![t] = "stored"]
    /\ UNCHANGED <<adapter, outside, smClosed, smOpenBy, openCalled, openOK, last>>

\* s.opened = true
OnDiskStateMachine_Open_store(t) ==
    /\ variant = "OnDisk"
    /\ pc[t] = "guarded"
    /\ opened' = TRUE
    /\ writers' = writers \cup {t}
    /\ pc' = [pc EXCEPT ![t] = "stored"]
    /\ UNCHANGED <<variant, outside, smClosed, h, na, smOpenBy, openCalled, openOK, last>>

\* s.sm.Open(stopc) is entered
OnDiskStateMachine_Open_invoke(t) ==
    /\ variant = "OnDisk"
    /\ pc[t] = "stored"
    /\ smOpenBy' = [smOpenBy EXCEPT ![t] = @ + 1]
    /\ pc' = [pc EXCEPT ![t] = "invoked"]
    /\ UNCHANGED <<adapter, outside, smClosed, openCalled, openOK, last>>

\* Open taking the flag back when the wrapped Open failed
OnDiskStateMachine_Open_return_ClearsOnError(t) ==
    /\ variant = "OnDisk"
    /\ pc[t] = "invoked"
    /\ \E applied \in Indexes, err \in ErrOrNil :
          /\ last' = OpenResult(t, applied, err)
          /\ openOK' = (openOK \/ err = Nil)
          /\ opened' = (IF err # Nil THEN FALSE ELSE opened)
          /\ writers' = (IF err # Nil THEN {} ELSE writers)
    /\ pc' = [pc EXCEPT ![t] = "idle"]
    /\ UNCHANGED <<variant, h, na, outside, smClosed, smOpenBy, openCalled>>

\* s.sm.Open answers and Open returns
OnDiskStateMachine_Open_return(t) ==
    /\ variant = "OnDisk"
    /\ pc[t] = "invoked"
    /\ \E applied \in Indexes, err \in ErrOrNil :
          /\ last' = OpenResult(t, applied, err)
          /\ openOK' = (openOK \/ err = Nil)
    /\ pc' = [pc EXCEPT ![t] = "idle"]
    /\ UNCHANGED <<adapter, outside, smClosed, smOpenBy, openCalled>>

OnDiskStateMachine_Update(t, entries) ==
    /\ variant = "OnDisk"
    /\ pc[t] = "idle"
    /\ LET args == [NoArgs EXCEPT !.entries = entries] IN
       \E seen \in Observe(t) :
          IF ~seen
          THEN last' = Panic("Update", t, args, "Update called before Open")
          ELSE \E out \in FilledBatches(entries), err \in ErrOrNil :
                 last' = Return("Update", t, args, [NoRet EXCEPT !.entries = out], err,
                                <<WrappedCall("Update", args, [NoRet EXCEPT !.entries = out], err)>>)
    /\ UNCHANGED <<adapter, outside, smClosed, history>>

\* Lookup without the check on s.opened
OnDiskStateMachine_Lookup_Unguarded(t, query) ==
    /\ variant = "OnDisk"
    /\ pc[t] = "idle"
    /\ LET args == [NoArgs EXCEPT !.query = query] IN
       \E d \in Datas, err \in ErrOrNil :
          last' = Return("Lookup", t, args, [NoRet EXCEPT !.data = d], err,
                         <<WrappedCall("Lookup", args, [NoRet EXCEPT !.data = d], err)>>)
    /\ UNCHANGED <<adapter, outside, smClosed, history>>

OnDiskStateMachine_Lookup(t, query) ==
    /\ variant = "OnDisk"
    /\ pc[t] = "idle"
    /\ LET args == [NoArgs EXCEPT !.query = query] IN
       \E seen \in Observe(t) :
          IF ~seen
          THEN last' = Panic("Lookup", t, args, "Lookup called when not opened")
          ELSE \E d \in Datas, err \in ErrOrNil :
                 last' = Return("Lookup", t, args, [NoRet EXCEPT !.data = d], err,
                                <<WrappedCall("Lookup", args, [NoRet EXCEPT !.data = d], err)>>)
    /\ UNCHANGED <<adapter, outside, smClosed, history>>

OnDiskStateMachine_NALookup(t, query) ==
    /\ variant = "OnDisk"
    /\ pc[t] = "idle"
    /\ LET args == [NoArgs EXCEPT !.query = query] IN
       IF ~na
       THEN last' = Return("NALookup", t, args, NoRet, ErrNotImplemented, <<>>)
       ELSE \E d \in Datas, err \in ErrOrNil :
              last' = Return("NALookup", t, args, [NoRet EXCEPT !.data = d], err,
                             <<WrappedCall("NALookup", args, [NoRet EXCEPT !.data = d], err)>>)
    /\ UNCHANGED <<adapter, outside, smClosed, history>>

\* Sync without the check on s.opened
OnDiskStateMachine_Sync_Unguarded(t) ==
    /\ variant = "OnDisk"
    /\ pc[t] = "idle"
    /\ \E err \in ErrOrNil :
          last' = Return("Sync", t, NoArgs, NoRet, err,
                         <<WrappedCall("Sync", NoArgs, NoRet, err)>>)
    /\ UNCHANGED <<adapter, outside, smClosed, history>>

OnDiskStateMachine_Sync(t) ==
    /\ variant = "OnDisk"
    /\ pc[t] = "idle"
    /\ \E seen \in Observe(t) :
          IF ~seen
          THEN last' = Panic("Sync", t, NoArgs, "Sync called when not opened")
          ELSE \E err \in ErrOrNil :
                 last' = Return("Sync", t, NoArgs, NoRet, err,
                                <<WrappedCall("Sync", NoArgs, NoRet, err)>>)
    /\ UNCHANGED <<adapter, outside, smClosed, history>>

OnDiskStateMachine_Prepare(t) ==
    /\ variant = "OnDisk"
    /\ pc[t] = "idle"
    /\ \E seen \in Observe(t) :
          IF ~seen
          THEN last' = Panic("Prepare", t, NoArgs, "PrepareSnapshot called when not opened")
          ELSE \E c \in Ctxs, err \in ErrOrNil :
                 last' = Return("Prepare", t, NoArgs, [NoRet EXCEPT !.data = c], err,
                                <<WrappedCall("PrepareSnapshot", NoArgs,
                                              [NoRet EXCEPT !.data = c], err)>>)
    /\ UNCHANGED <<adapter, outside, smClosed, history>>

\* Save handing the file collection on, as the in-memory adapters do
OnDiskStateMachine_Save_WithFiles(t, ctx, stopc) ==
    /\ variant = "OnDisk"
    /\ pc[t] = "idle"
    /\ LET args == [NoArgs EXCEPT !.ctx = ctx, !.io = "w", !.fc = "fc", !.stopc = stopc] IN
       \E seen \in Observe(t) :
          IF ~seen
          THEN last' = Panic("Save", t, args, "SaveSnapshot called when not opened")
          ELSE \E err \in SaveSnapshotErrs(stopc) :
                 last' = Return("Save", t, args, NoRet, err,
                                <<WrappedCall("SaveSnapshot", args, NoRet, err)>>)
    /\ UNCHANGED <<adapter, outside, smClosed, history>>

OnDiskStateMachine_Save(t, ctx, stopc) ==
    /\ variant = "OnDisk"
    /\ pc[t] = "idle"
    /\ LET args == [NoArgs EXCEPT !.ctx = ctx, !.io = "w", !.fc = "fc", !.stopc = stopc] IN
       \E seen \in Observe(t) :
          IF ~seen
          THEN last' = Panic("Save", t, args, "SaveSnapshot called when not opened")
          ELSE \E err \in SaveSnapshotErrs(stopc) :
                 last' = Return("Save", t, args, NoRet, err,
                                <<WrappedCall("SaveSnapshot",
                                     [NoArgs EXCEPT !.ctx = ctx, !.io = "w", !.stopc = stopc],
                                     NoRet, err)>>)
    /\ UNCHANGED <<adapter, outside, smClosed, history>>

OnDiskStateMachine_Recover(t, stopc) ==
    /\ variant = "OnDisk"
    /\ pc[t] = "idle"
    /\ LET args == [NoArgs EXCEPT !.io = "r", !.fs = "fs", !.stopc = stopc] IN
       \E seen \in Observe(t) :
          IF ~seen
          THEN last' = Panic("Recover", t, args, "RecoverFromSnapshot called when not opened")
          ELSE \E err \in ErrOrNil :
                 last' = Return("Recover", t, args, NoRet, err,
                                <<WrappedCall("RecoverFromSnapshot",
                                     [NoArgs EXCEPT !.io = "r", !.stopc = stopc],
                                     NoRet, err)>>)
    /\ UNCHANGED <<adapter, outside, smClosed, history>>

\* Close refusing to run twice
OnDiskStateMachine_Close_Once(t) ==
    /\ variant = "OnDisk"
    /\ pc[t] = "idle"
    /\ IF smClosed
       THEN last' = Panic("Close", t, NoArgs, "Close called more than once")
       ELSE \E err \in ErrOrNil :
              last' = Return("Close", t, NoArgs, NoRet, err,
                             <<WrappedCall("Close", NoArgs, NoRet, err)>>)
    /\ smClosed' = TRUE
    /\ UNCHANGED <<adapter, outside, history>>

OnDiskStateMachine_Close(t) ==
    /\ variant = "OnDisk"
    /\ pc[t] = "idle"
    /\ \E err \in ErrOrNil :
          last' = Return("Close", t, NoArgs, NoRet, err,
                         <<WrappedCall("Close", NoArgs, NoRet, err)>>)
    /\ smClosed' = TRUE
    /\ UNCHANGED <<adapter, outside, history>>

OnDiskStateMachine_GetHash(t) ==
    /\ variant = "OnDisk"
    /\ pc[t] = "idle"
    /\ IF ~h
       THEN last' = Return("GetHash", t, NoArgs, NoRet, ErrNotImplemented, <<>>)
       ELSE \E v \in Hashes, err \in ErrOrNil :
              last' = Return("GetHash", t, NoArgs, [NoRet EXCEPT !.val = v], err,
                             <<WrappedCall("GetHash", NoArgs, [NoRet EXCEPT !.val = v], err)>>)
    /\ UNCHANGED <<adapter, outside, smClosed, history>>

\* Concurrent() answering like the in-memory regular adapter
OnDiskStateMachine_Concurrent_False(t) ==
    /\ variant = "OnDisk"
    /\ pc[t] = "idle"
    /\ last' = Return("Concurrent", t, NoArgs, [NoRet EXCEPT !.flag = FALSE], Nil, <<>>)
    /\ UNCHANGED <<adapter, outside, smClosed, history>>

OnDiskStateMachine_Concurrent(t) ==
    /\ variant = "OnDisk"
    /\ pc[t] = "idle"
    /\ last' = Return("Concurrent", t, NoArgs, [NoRet EXCEPT !.flag = TRUE], Nil, <<>>)
    /\ UNCHANGED <<adapter, outside, smClosed, history>>

OnDiskStateMachine_OnDisk(t) ==
    /\ variant = "OnDisk"
    /\ pc[t] = "idle"
    /\ last' = Return("OnDisk", t, NoArgs, [NoRet EXCEPT !.flag = TRUE], Nil, <<>>)
    /\ UNCHANGED <<adapter, outside, smClosed, history>>

OnDiskStateMachine_Type(t) ==
    /\ variant = "OnDisk"
    /\ pc[t] = "idle"
    /\ last' = Return("Type", t, NoArgs, [NoRet EXCEPT !.data = OnDiskType], Nil, <<>>)
    /\ UNCHANGED <<adapter, outside, smClosed, history>>

\* every call made by one goroutine, one call at a time
OnDiskNext ==
    \/ OnDiskStateMachine_Open(MainThread)
    \/ \E entries \in Batches : OnDiskStateMachine_Update(MainThread, entries)
    \/ \E q \in Queries : OnDiskStateMachine_Lookup(MainThread, q)
    \/ \E q \in Queries : OnDiskStateMachine_NALookup(MainThread, q)
    \/ OnDiskStateMachine_Sync(MainThread)
    \/ OnDiskStateMachine_Prepare(MainThread)
    \/ \E ctx \in Ctxs, stopc \in StopChans : OnDiskStateMachine_Save(MainThread, ctx, stopc)
    \/ \E stopc \in StopChans : OnDiskStateMachine_Recover(MainThread, stopc)
    \/ OnDiskStateMachine_Close(MainThread)
    \/ OnDiskStateMachine_GetHash(MainThread)
    \/ OnDiskStateMachine_Concurrent(MainThread)
    \/ OnDiskStateMachine_OnDisk(MainThread)
    \/ OnDiskStateMachine_Type(MainThread)

Next == RegularNext \/ ConcurrentNext \/ OnDiskNext

Spec == Init /\ [][Next]_vars

\* ------------------------------------------- goroutines on one on-disk adapter
\* Several goroutines call Open and the operations Open gates, with no
\* ordering between them; Open runs statement by statement.
InitConc == Init /\ variant = "OnDisk"

\* single-entry batches: the guard does not read the batch
ConcBatches == {b \in Batches : Len(b) = 1}

NextConc ==
    \E t \in Threads :
        \/ OnDiskStateMachine_Open_guard(t)
        \/ OnDiskStateMachine_Open_store(t)
        \/ OnDiskStateMachine_Open_invoke(t)
        \/ OnDiskStateMachine_Open_return(t)
        \/ \E entries \in ConcBatches : OnDiskStateMachine_Update(t, entries)
        \/ \E q \in Queries : OnDiskStateMachine_Lookup(t, q)
        \/ OnDiskStateMachine_Sync(t)
        \/ OnDiskStateMachine_Prepare(t)
        \/ \E ctx \in Ctxs : OnDiskStateMachine_Save(t, ctx, "stopc")
        \/ OnDiskStateMachine_Recover(t, "stopc")

SpecConc == InitConc /\ [][NextConc]_vars

\* ------------------------------- a snapshot of a concurrent machine, recovered
\* The wrapped machine here is one that honours the snapshot contract: its
\* state is the set of commands applied; PrepareSnapshot captures the state
\* and answers with a context naming the capture; SaveSnapshot writes the
\* capture its context names, or the live state when it is given none;
\* RecoverFromSnapshot replaces the state by what the stream holds.
\* Update runs on MainThread, the snapshot on SnapThread.
SnapThread == CHOOSE t \in Threads : t # MainThread

SM_Update(state, entries) == state \cup {entries[i].Cmd : i \in DOMAIN entries}
SM_Results(entries) == [i \in DOMAIN entries |-> Entry(entries[i].Cmd, "r1")]
SM_Lookup(state) == state
SM_GetHash(state) == Cardinality(state) % (MaxHash + 1)
\* the stream format: the commands one after another
RECURSIVE Encode(_)
Encode(state) ==
    IF state = {} THEN <<>>
    ELSE LET c == CHOOSE x \in state : TRUE IN <<c>> \o Encode(state \ {c})
Decode(bytes) == {bytes[i] : i \in DOMAIN bytes}
SM_SaveSnapshot(ctx, kept, live) == Encode(IF ctx = Nil THEN live ELSE kept)
SM_RecoverFromSnapshot(bytes) == Decode(bytes)

InitSnap == Init /\ variant = "Concurrent"

\* return s.sm.Update(entries)
Snap_Update(entries) ==
    /\ variant = "Concurrent"
    /\ LET args == [NoArgs EXCEPT !.entries = entries]
           call == WrappedCall("Update", args,
                               [NoRet EXCEPT !.entries = SM_Results(args.entries)], Nil)
       IN /\ last' = Return("Update", MainThread, args, call.ret, call.err, <<call>>)
          /\ src' = SM_Update(src, call.args.entries)
    /\ racing' = (racing \/ snapPc = "saving")
    /\ UNCHANGED <<adapter, smCaps, smClosed, history, kv>>
    /\ UNCHANGED <<captured, atPrepare, held, passed, stream, fresh, snapPc>>

\* return s.sm.PrepareSnapshot(); a new snapshot starts with it
Snap_Prepare ==
    /\ variant = "Concurrent"
    /\ snapPc \in {"idle", "saved", "recovered"}
    /\ LET call == WrappedCall("PrepareSnapshot", NoArgs, [NoRet EXCEPT !.data = "ctx"], Nil)
       IN /\ last' = Return("Prepare", SnapThread, NoArgs, call.ret, call.err, <<call>>)
          /\ held' = call.ret.data
    /\ captured' = src
    /\ atPrepare' = src
    /\ passed' = Nil
    /\ stream' = <<>>
    /\ fresh' = {}
    /\ racing' = FALSE
    /\ snapPc' = "prepared"
    /\ UNCHANGED <<adapter, smCaps, smClosed, history, src, kv>>

\* Save entering the wrapped machine with no context at all
Snap_Save_invoke_DropsCtx ==
    /\ variant = "Concurrent"
    /\ snapPc = "prepared"
    /\ passed' = Nil
    /\ snapPc' = "saving"
    /\ UNCHANGED <<adapter, smCaps, smClosed, history, last, kv>>
    /\ UNCHANGED <<src, captured, atPrepare, held, stream, fresh, racing>>

\* s.sm.SaveSnapshot(ctx, w, fc, stopc) is entered with the caller's context
Snap_Save_invoke ==
    /\ variant = "Concurrent"
    /\ snapPc = "prepared"
    /\ LET ctx == held IN passed' = ctx
    /\ snapPc' = "saving"
    /\ UNCHANGED <<adapter, smCaps, smClosed, history, last, kv>>
    /\ UNCHANGED <<src, captured, atPrepare, held, stream, fresh, racing>>

\* s.sm.SaveSnapshot has written the stream and Save returns its error
Snap_Save_return ==
    /\ variant = "Concurrent"
    /\ snapPc = "saving"
    /\ LET args == [NoArgs EXCEPT !.ctx = held, !.io = "w", !.fc = "fc", !.stopc = "stopc"]
           call == WrappedCall("SaveSnapshot", [args EXCEPT !.ctx = passed], NoRet, Nil)
       IN /\ last' = Return("Save", SnapThread, args, NoRet, call.err, <<call>>)
          /\ stream' = SM_SaveSnapshot(call.args.ctx, captured, src)
    /\ snapPc' = "saved"
    /\ UNCHANGED <<adapter, smCaps, smClosed, history, kv>>
    /\ UNCHANGED <<src, captured, atPrepare, held, passed, fresh, racing>>

\* return s.sm.RecoverFromSnapshot(r, fs, stopc), on the fresh machine
Snap_Recover ==
    /\ variant = "Concurrent"
    /\ snapPc = "saved"
    /\ LET args == [NoArgs EXCEPT !.io = "r", !.fs = "fs", !.stopc = "stopc"]
           call == WrappedCall("RecoverFromSnapshot", args, NoRet, Nil)
       IN /\ last' = Return("Recover", SnapThread, args, NoRet, call.err, <<call>>)
          /\ fresh' = SM_RecoverFromSnapshot(stream)
    /\ snapPc' = "recovered"
    /\ UNCHANGED <<adapter, smCaps, smClosed, history, kv>>
    /\ UNCHANGED <<src, captured, atPrepare, held, passed, stream, racing>>

NextSnap ==
    \/ \E entries \in Batches : Snap_Update(entries)
    \/ Snap_Prepare
    \/ Snap_Save_invoke
    \/ Snap_Save_return
    \/ Snap_Recover

SpecSnap == InitSnap /\ [][NextSnap]_vars

\* ============================================================ the pebble store
\* pebble itself: an ordered map of byte strings whose iterators run over the
\* stored keys in ascending order and whose batches are applied whole or not
\* at all.
StoredKeys(d) == {k \in Keys : d[k] # Nil}
RECURSIVE SortKeys(_)
SortKeys(S) ==
    IF S = {} THEN <<>>
    ELSE LET least == CHOOSE k \in S : \A j \in S : Compare(k, j) <= 0
         IN <<least>> \o SortKeys(S \ {least})
\* iter.SeekGE(fk): the keys the iterator has yet to yield
SeekGE(d, fk) == SortKeys({k \in StoredKeys(d) : Compare(k, fk) >= 0})
\* db.Apply: the batch's operations, in order
RECURSIVE Apply(_, _)
Apply(d, ops) ==
    IF ops = <<>> THEN d
    ELSE Apply([d EXCEPT ![Head(ops).key] = Head(ops).val], Tail(ops))

\* what happens at one key of an iteration: the callback answers "more",
\* "stop" or "err" there, or the iterator reports an error on reaching it
IterEnvs ==
    {[at |-> NoKey, kind |-> "more"]} \cup
    {[at |-> k, kind |-> x] : k \in Keys, x \in {"stop", "err", "fail"}}
OpAnswer(env, key) ==
    IF key = env.at /\ env.kind \in {"stop", "err"} THEN env.kind ELSE "more"
\* iteratorIsValid: "valid", "done", or "panic" when iter.Error() is not nil
iteratorIsValid(rest, env) ==
    IF rest = <<>> THEN "done"
    ELSE IF Head(rest) = env.at /\ env.kind = "fail" THEN "panic"
    ELSE "valid"

\* ---------------------------------------------------------- pebbleWriteBatch
pebbleWriteBatch_Put(w, key, val) ==
    [ops |-> Append(w.ops, [kind |-> "put", key |-> key, val |-> val]),
     count |-> w.count + 1]
pebbleWriteBatch_Delete(w, key) ==
    [ops |-> Append(w.ops, [kind |-> "del", key |-> key, val |-> Nil]),
     count |-> w.count + 1]
pebbleWriteBatch_Clear(w) == [ops |-> <<>>, count |-> 0]
pebbleWriteBatch_Count(w) == w.count

\* ------------------------------------------------------------------ PebbleKV
\* the bound check of IterateValue, always exclusive
PastEnd_Exclusive(key, lk, inc) == Compare(key, lk) >= 0

\* the bound check of IterateValue: the key lies past lk
PastEnd(key, lk, inc) ==
    IF inc THEN Compare(key, lk) > 0 ELSE Compare(key, lk) >= 0

\* the loop of IterateValue; got is the call's record so far
RECURSIVE IterateLoop(_, _, _, _, _, _)
IterateLoop(d, rest, lk, inc, env, sofar) ==
    LET valid == iteratorIsValid(rest, env) IN
    IF valid = "panic" THEN [sofar EXCEPT !.outcome = "panic"]
    ELSE IF valid = "done" THEN [sofar EXCEPT !.outcome = "return"]
    ELSE LET key == Head(rest)
             val == d[key]
         IN IF PastEnd(key, lk, inc) THEN [sofar EXCEPT !.outcome = "return"]
            ELSE LET answer == OpAnswer(env, key)
                     called == [sofar EXCEPT
                                  !.visited = Append(@, [key |-> key, val |-> val]),
                                  !.answers = Append(@, answer)]
                 IN IF answer = "err"
                    THEN [called EXCEPT !.outcome = "return", !.err = OpErr]
                    ELSE IF answer = "stop"
                    THEN [called EXCEPT !.outcome = "return"]
                    ELSE IterateLoop(d, Tail(rest), lk, inc, env, called)

PebbleKV_IterateValue ==
    /\ \E fk \in Probes, lk \in Probes, inc \in BOOLEAN, env \in IterEnvs :
          kvLast' = IterateLoop(db, SeekGE(db, fk), lk, inc, env,
                                [KVResult("IterateValue", "none", Nil) EXCEPT
                                    !.fk = fk, !.lk = lk, !.inc = inc])
    /\ UNCHANGED <<rsm, db, wbs, got, committed>>

PebbleKV_GetValue ==
    /\ \E key \in Keys, geterr \in {Nil, IoErr}, operr \in {Nil, OpErr} :
          kvLast' =
             IF geterr # Nil
             THEN [KVResult("GetValue", "return", geterr) EXCEPT !.key = key]
             ELSE [KVResult("GetValue", "return", operr) EXCEPT
                      !.key = key, !.val = db[key],
                      !.visited = <<[key |-> key, val |-> db[key]]>>]
    /\ UNCHANGED <<rsm, db, wbs, got, committed>>

PebbleKV_SaveValue ==
    /\ \E key \in Keys, value \in Values, err \in {Nil, IoErr} :
          /\ kvLast' = [KVResult("SaveValue", "return", err) EXCEPT
                           !.key = key, !.val = value]
          /\ db' = IF err = Nil THEN [db EXCEPT ![key] = value] ELSE db
    /\ UNCHANGED <<rsm, wbs, got, committed>>

PebbleKV_DeleteValue ==
    /\ \E key \in Keys, err \in {Nil, IoErr} :
          /\ kvLast' = [KVResult("DeleteValue", "return", err) EXCEPT !.key = key]
          /\ db' = IF err = Nil THEN [db EXCEPT ![key] = Nil] ELSE db
    /\ UNCHANGED <<rsm, wbs, got, committed>>

\* the loop of RemoveEntries stopping only past lk
RemoveStops_Inclusive(key, lk) == Compare(key, lk) > 0

\* the loop of RemoveEntries stops at the first key not below lk
RemoveStops(key, lk) == Compare(key, lk) >= 0

\* the loop of RemoveEntries: the batch it fills, or "panic"
RECURSIVE RemoveLoop(_, _, _, _)
RemoveLoop(rest, lk, env, wb) ==
    LET valid == iteratorIsValid(rest, env) IN
    IF valid = "panic" THEN [outcome |-> "panic", wb |-> wb]
    ELSE IF valid = "done" THEN [outcome |-> "return", wb |-> wb]
    ELSE IF RemoveStops(Head(rest), lk) THEN [outcome |-> "return", wb |-> wb]
    ELSE RemoveLoop(Tail(rest), lk, env, pebbleWriteBatch_Delete(wb, Head(rest)))

PebbleKV_RemoveEntries ==
    /\ \E fk \in Probes, lk \in Probes, err \in {Nil, IoErr},
          env \in {e \in IterEnvs : e.kind \in {"more", "fail"}} :
          LET filled == RemoveLoop(SeekGE(db, fk), lk, env, NewWriteBatch)
              call == [KVResult("RemoveEntries", filled.outcome, Nil) EXCEPT
                          !.fk = fk, !.lk = lk]
          IN IF filled.outcome = "return" /\ pebbleWriteBatch_Count(filled.wb) > 0
             THEN /\ kvLast' = [call EXCEPT !.err = err, !.applies = 1,
                                            !.batch = filled.wb.ops]
                  /\ db' = IF err = Nil THEN Apply(db, filled.wb.ops) ELSE db
             ELSE /\ kvLast' = call
                  /\ db' = db
    /\ UNCHANGED <<rsm, wbs, got, committed>>

PebbleKV_Compaction ==
    /\ \E fk \in Probes, lk \in Probes, err \in {Nil, IoErr} :
          kvLast' = [KVResult("Compaction", "return", err) EXCEPT !.fk = fk, !.lk = lk]
    /\ UNCHANGED <<rsm, db, wbs, got, committed>>

\* the store is used on its own, whatever adapter stands above it
InitKV ==
    /\ Init
    /\ variant = "Regular"
    /\ smCaps = [hash |-> FALSE, ext |-> FALSE]

NextKV ==
    \/ PebbleKV_IterateValue
    \/ PebbleKV_GetValue
    \/ PebbleKV_SaveValue
    \/ PebbleKV_DeleteValue
    \/ PebbleKV_RemoveEntries
    \/ PebbleKV_Compaction

SpecKV == InitKV /\ [][NextKV]_vars

\* ------------------------------------------------- write batches and contexts
\* Two batches are in use: the one a context holds and the one the latest
\* GetWriteBatch made. Batches are filled with one key and one value.
WBKeys == {CHOOSE k \in Keys : \A j \in Keys : Compare(k, j) <= 0}
WBValues == {CHOOSE v \in Values : TRUE}

WB_Put(b) ==
    /\ pebbleWriteBatch_Count(wbs[b]) < MaxOps
    /\ \E key \in WBKeys, val \in WBValues :
          /\ wbs' = [wbs EXCEPT ![b] = pebbleWriteBatch_Put(@, key, val)]
          /\ kvLast' = [KVResult("Put", "return", Nil) EXCEPT
                           !.ref = b, !.key = key, !.val = val]
    /\ UNCHANGED <<rsm, db, got, committed>>

WB_Delete(b) ==
    /\ pebbleWriteBatch_Count(wbs[b]) < MaxOps
    /\ \E key \in WBKeys :
          /\ wbs' = [wbs EXCEPT ![b] = pebbleWriteBatch_Delete(@, key)]
          /\ kvLast' = [KVResult("Delete", "return", Nil) EXCEPT !.ref = b, !.key = key]
    /\ UNCHANGED <<rsm, db, got, committed>>

WB_Clear(b) ==
    /\ wbs' = [wbs EXCEPT ![b] = pebbleWriteBatch_Clear(@)]
    /\ committed' = committed \ {b}
    /\ kvLast' = [KVResult("Clear", "return", Nil) EXCEPT !.ref = b]
    /\ UNCHANGED <<rsm, db, got>>

WB_Count(b) ==
    /\ kvLast' = [KVResult("Count", "return", Nil) EXCEPT
                     !.ref = b, !.count = pebbleWriteBatch_Count(wbs[b])]
    /\ UNCHANGED <<rsm, db, wbs, got, committed>>

PebbleKV_GetWriteBatch ==
    /\ \E ctx \in Contexts :
          IF ctx # Nil /\ ContextBatch(ctx) # Nil
          THEN /\ got' = ContextBatch(ctx)
               /\ UNCHANGED <<wbs, committed>>
          ELSE /\ got' = "wbNew"
               /\ wbs' = [wbs EXCEPT !["wbNew"] = NewWriteBatch]
               /\ committed' = committed \ {"wbNew"}
    /\ kvLast' = [KVResult("GetWriteBatch", "return", Nil) EXCEPT !.ref = got']
    /\ UNCHANGED <<rsm, db>>

\* a commit that hands the batch back empty
PebbleKV_CommitWriteBatch_Resets(b) ==
    /\ \E err \in {Nil, IoErr} :
          /\ db' = IF err = Nil THEN Apply(db, wbs[b].ops) ELSE db
          /\ committed' = IF err = Nil THEN committed \cup {b} ELSE committed
          /\ kvLast' = [KVResult("CommitWriteBatch", "return", err) EXCEPT
                           !.ref = b, !.applies = 1, !.batch = wbs[b].ops]
    /\ wbs' = [wbs EXCEPT ![b] = pebbleWriteBatch_Clear(@)]
    /\ UNCHANGED <<rsm, got>>

PebbleKV_CommitWriteBatch(b) ==
    /\ \E err \in {Nil, IoErr} :
          /\ db' = IF err = Nil THEN Apply(db, wbs[b].ops) ELSE db
          /\ committed' = IF err = Nil THEN committed \cup {b} ELSE committed
          /\ kvLast' = [KVResult("CommitWriteBatch", "return", err) EXCEPT
                           !.ref = b, !.applies = 1, !.batch = wbs[b].ops]
    /\ UNCHANGED <<rsm, wbs, got>>

PebbleKV_CommitDeleteBatch(b) == PebbleKV_CommitWriteBatch(b)

NextWB ==
    \/ \E b \in BatchRefs : WB_Put(b)
    \/ \E b \in BatchRefs : WB_Delete(b)
    \/ \E b \in BatchRefs : WB_Clear(b)
    \/ \E b \in BatchRefs : WB_Count(b)
    \/ PebbleKV_GetWriteBatch
    \/ \E b \in BatchRefs : PebbleKV_CommitWriteBatch(b)
    \/ \E b \in BatchRefs : PebbleKV_CommitDeleteBatch(b)

SpecWB == InitKV /\ [][NextWB]_vars

\* ================================================================ properties
\* operations the on-disk adapter refuses until Open has been called
GatedOps == {"Update", "Lookup", "Sync", "Prepare", "Save", "Recover"}

\* the wrapped machine's method behind each adapter operation
WrappedName(op) ==
    CASE op = "Save" -> "SaveSnapshot"
      [] op = "Prepare" -> "PrepareSnapshot"
      [] op = "Recover" -> "RecoverFromSnapshot"
      [] OTHER -> op

Aborted(c) == c.outcome = "panic" /\ c.calls = <<>>
DelegatedOnce(c) ==
    /\ c.outcome = "return"
    /\ Len(c.calls) = 1
    /\ c.calls[1].op = WrappedName(c.op)

RECURSIVE SumOver(_, _)
SumOver(f, S) ==
    IF S = {} THEN 0
    ELSE LET x == CHOOSE y \in S : TRUE IN f[x] + SumOver(f, S \ {x})
\* wrapped Open invocations over the adapter's lifetime
TotalOpens == SumOver(smOpenBy, Threads)

\* ---------------------------------------------------------------- C1
\* C1: on the on-disk adapter, called one call at a time, Update, Lookup, Sync,
\* Prepare, Save and Recover panic without reaching the wrapped machine as long
\* as Open has never been called; once an Open has succeeded each of them is
\* handed to the wrapped machine's corresponding method exactly once.
C1_GatedUntilOpen ==
    (variant = "OnDisk" /\ last.op \in GatedOps) =>
        /\ ~openCalled => Aborted(last)
        /\ openOK => DelegatedOnce(last)

C1_Witness ==
    /\ variant = "OnDisk"
    /\ ~openCalled
    /\ last.op = "Sync"
    /\ last.outcome = "panic"
    /\ last.msg = "Sync called when not opened"

\* ---------------------------------------------------------------- C2
\* C2: on the on-disk adapter, called one call at a time, every Open after the
\* first panics, so the wrapped Open is invoked at most once; opened, once
\* true, is never set back to false by any call, Close included.
C2_OpenOnce ==
    [][/\ TotalOpens' <= 1
       /\ opened => opened'
       /\ (variant = "OnDisk" /\ openCalled /\ last'.op = "Open") => Aborted(last')
       /\ (variant = "OnDisk" /\ ~openCalled /\ last'.op = "Open") =>
              (~opened /\ opened' /\ DelegatedOnce(last'))]_vars

C2_Witness ==
    /\ variant = "OnDisk"
    /\ opened
    /\ TotalOpens = 1
    /\ last.op = "Open"
    /\ last.outcome = "panic"

\* ---------------------------------------------------------------- C3
\* C3 as claimed: with goroutines interleaving on one on-disk adapter, a gated
\* operation called while another goroutine is inside Open panics without
\* reaching the wrapped machine, and the wrapped Open is invoked at most once.
C3_AsClaimed ==
    /\ (last.op \in GatedOps /\ last.during) => Aborted(last)
    /\ TotalOpens <= 1

\* C3 amended: a gated operation panics without reaching the wrapped machine
\* as long as no goroutine has stored opened; the flag is stored before the
\* wrapped Open is entered; each goroutine enters the wrapped Open at most once.
C3_Amended ==
    /\ (last.op \in GatedOps /\ ~opened) => Aborted(last)
    /\ TotalOpens >= 1 => opened
    /\ \A t \in Threads : smOpenBy[t] <= 1
    /\ \A t \in Threads : pc[t] \in {"stored", "invoked"} => opened

C3_Witness ==
    /\ last.op \in GatedOps
    /\ last.during
    /\ last.outcome = "return"
    /\ TotalOpens = 2

\* ---------------------------------------------------------------- C4
\* C4: the regular adapter's Update panics, without calling the wrapped
\* Update, on any batch whose length is not 1; on a one-entry batch it calls
\* the wrapped Update once with that entry's command and returns the one entry
\* with the wrapped machine's result, and no error if the wrapped call had none.
C4_RegularUpdate ==
    (variant = "Regular" /\ last.op = "Update") =>
        IF Len(last.args.entries) # 1
        THEN Aborted(last)
        ELSE /\ DelegatedOnce(last)
             /\ last.calls[1].args.cmd = last.args.entries[1].Cmd
             /\ Len(last.ret.entries) = 1
             /\ last.ret.entries[1].Cmd = last.args.entries[1].Cmd
             /\ last.ret.entries[1].Result = last.calls[1].ret.data
             /\ last.calls[1].err = Nil => last.err = Nil

C4_Witness ==
    /\ variant = "Regular"
    /\ last.op = "Update"
    /\ last.outcome = "return"
    /\ last.args.entries = <<Entry("c2", ZeroResult)>>
    /\ last.ret.entries = <<Entry("c2", "r1")>>
    /\ last.err = Nil

\* ---------------------------------------------------------------- C5
\* C5: the regular adapter's Save panics, without calling SaveSnapshot, when
\* given a non-nil context; given a nil context it calls SaveSnapshot once and
\* returns exactly the error (or nil) SaveSnapshot returned.
C5_RegularSave ==
    (variant = "Regular" /\ last.op = "Save") =>
        IF last.args.ctx # Nil
        THEN Aborted(last)
        ELSE /\ DelegatedOnce(last)
             /\ last.err = last.calls[1].err

C5_Witness ==
    /\ variant = "Regular"
    /\ last.op = "Save"
    /\ last.args.ctx = "ctx"
    /\ last.outcome = "panic"
    /\ last.msg = "ctx is not nil"

\* ---------------------------------------------------------------- C6
\* C6: Open, Sync and Prepare on the regular adapter, and Open and Sync on the
\* concurrent adapter, panic in every state, never reach the wrapped machine
\* and never return an error value.
C6_WrongPairing ==
    (\/ variant = "Regular" /\ last.op \in {"Open", "Sync", "Prepare"}
     \/ variant = "Concurrent" /\ last.op \in {"Open", "Sync"}) =>
        /\ Aborted(last)
        /\ last.err = Nil

C6_Witness ==
    /\ variant = "Concurrent"
    /\ last.op = "Sync"
    /\ last.outcome = "panic"
    /\ last.msg = "Sync called on ConcurrentStateMachine"

\* ---------------------------------------------------------------- C7
\* what a capability-dependent call must have done, given the capability
CapabilityCall(c, present) ==
    IF present
    THEN /\ DelegatedOnce(c)
         /\ c.ret = c.calls[1].ret
         /\ c.err = c.calls[1].err
    ELSE /\ c.outcome = "return"
         /\ c.calls = <<>>
         /\ c.err = ErrNotImplemented
         /\ c.ret = NoRet

\* C7: for all three adapters the capability fields are what the wrapped
\* machine offered at construction and no call changes them; GetHash on a
\* machine without the hash capability returns (0, ErrNotImplemented) without
\* delegating or panicking, and so does NALookup without the extended-lookup
\* capability; with the capability the call delegates and returns the wrapped
\* machine's answer.
C7_Capabilities ==
    [][/\ h' = h /\ na' = na /\ smCaps' = smCaps
       /\ h' = smCaps.hash /\ na' = smCaps.ext
       /\ last'.op = "GetHash" => CapabilityCall(last', smCaps.hash)
       /\ last'.op = "NALookup" => CapabilityCall(last', smCaps.ext)]_vars

C7_Witness ==
    /\ ~smCaps.ext
    /\ smCaps.hash
    /\ last.op = "NALookup"
    /\ last.outcome = "return"
    /\ last.err = ErrNotImplemented
    /\ last.calls = <<>>

\* ---------------------------------------------------------------- C8
\* Type(), Concurrent(), OnDisk() as fixed for each adapter at construction
Discriminant(v) ==
    CASE v = "Regular" -> [type |-> RegularType, concurrent |-> FALSE, ondisk |-> FALSE]
      [] v = "Concurrent" -> [type |-> ConcurrentType, concurrent |-> TRUE, ondisk |-> FALSE]
      [] v = "OnDisk" -> [type |-> OnDiskType, concurrent |-> TRUE, ondisk |-> TRUE]

\* C8: after any sequence of calls Type(), Concurrent() and OnDisk() return
\* the values fixed for the adapter's variant, reach nothing in the wrapped
\* machine and change no state; an adapter whose OnDisk() is true has a true
\* Concurrent().
C8_Discriminants ==
    [][/\ last'.op = "Type" =>
              /\ last'.outcome = "return"
              /\ last'.ret.data = Discriminant(variant).type
       /\ last'.op = "Concurrent" =>
              /\ last'.outcome = "return"
              /\ last'.ret.flag = Discriminant(variant).concurrent
              /\ Discriminant(variant).ondisk => last'.ret.flag
       /\ last'.op = "OnDisk" =>
              /\ last'.outcome = "return"
              /\ last'.ret.flag = Discriminant(variant).ondisk
       /\ last'.op \in {"Type", "Concurrent", "OnDisk"} =>
              /\ last'.calls = <<>>
              /\ last'.err = Nil
              /\ UNCHANGED <<adapter, outside, smClosed, history>>]_vars

C8_Witness ==
    /\ variant = "OnDisk"
    /\ opened
    /\ last.op = "Concurrent"
    /\ last.ret.flag = TRUE

\* ---------------------------------------------------------------- C9
\* C9: an on-disk Open that reaches the wrapped Open returns the wrapped
\* machine's applied index and no error when the wrapped Open succeeded, and
\* index 0 with the wrapped machine's error when it failed; the first Open
\* always reaches the wrapped Open.
C9_OpenResult ==
    [][(variant = "OnDisk" /\ last'.op = "Open") =>
          /\ ~openCalled => DelegatedOnce(last')
          /\ last'.outcome = "return" =>
                /\ DelegatedOnce(last')
                /\ IF last'.calls[1].err = Nil
                   THEN last'.err = Nil /\ last'.ret.val = last'.calls[1].ret.val
                   ELSE last'.err = last'.calls[1].err /\ last'.ret.val = 0]_vars

C9_Witness ==
    /\ variant = "OnDisk"
    /\ last.op = "Open"
    /\ last.outcome = "return"
    /\ last.calls[1].ret.val = MaxIndex
    /\ last.calls[1].err = "errA"
    /\ last.err = "errA"
    /\ last.ret.val = 0

\* ---------------------------------------------------------------- C10
C10Ops == {"Update", "Lookup", "Save", "Recover", "Close", "GetHash"}

\* whether the adapter, in its current state, lets the call through
Permitted(op, args) ==
    CASE variant = "Regular" ->
            CASE op = "Update" -> Len(args.entries) = 1
              [] op = "Save" -> args.ctx = Nil
              [] op = "GetHash" -> h
              [] OTHER -> TRUE
      [] variant = "Concurrent" ->
            CASE op = "GetHash" -> h
              [] OTHER -> TRUE
      [] variant = "OnDisk" ->
            CASE op \in {"Update", "Lookup", "Save", "Recover"} -> opened
              [] op = "GetHash" -> h
              [] OTHER -> TRUE

\* C10: for every adapter, a permitted Update, Lookup, Save, Recover, Close or
\* GetHash is delegated once and returns the very error (or nil) the wrapped
\* machine returned, never a panic, and leaves the capability fields and the
\* opened flag as they were.
C10_ErrorsVerbatim ==
    [][(last'.op \in C10Ops /\ Permitted(last'.op, last'.args)) =>
          /\ DelegatedOnce(last')
          /\ last'.err = last'.calls[1].err
          /\ UNCHANGED <<h, na, opened>>]_vars

C10_Witness ==
    /\ variant = "OnDisk"
    /\ opened
    /\ last.op = "Recover"
    /\ last.outcome = "return"
    /\ last.calls[1].err = "errA"
    /\ last.err = "errA"

\* ---------------------------------------------------------------- C11
\* C11 as claimed: in every reachable state of every adapter, Lookup is handed
\* to the wrapped machine and returns its (result, error); it never panics.
C11_AsClaimed ==
    last.op = "Lookup" =>
        /\ DelegatedOnce(last)
        /\ last.ret = last.calls[1].ret
        /\ last.err = last.calls[1].err

\* C11 amended: Lookup is handed to the wrapped machine and returns its
\* (result, error) in every state of the regular and concurrent adapters; on
\* the on-disk adapter it does so once Open has been called and panics,
\* without reaching the wrapped machine, before that.
C11_Amended ==
    last.op = "Lookup" =>
        IF variant = "OnDisk" /\ ~openCalled
        THEN Aborted(last)
        ELSE /\ DelegatedOnce(last)
             /\ last.calls[1].args.query = last.args.query
             /\ last.ret = last.calls[1].ret
             /\ last.err = last.calls[1].err

C11_Witness ==
    /\ variant = "OnDisk"
    /\ openCalled
    /\ last.op = "Lookup"
    /\ last.outcome = "return"
    /\ last.ret.data = "d"
    /\ last.err = Nil

\* ---------------------------------------------------------------- C14
\* C14: on the concurrent adapter, and on the on-disk adapter once opened,
\* Update of a batch of one or more entries calls the wrapped Update exactly
\* once with the whole batch in its order, and returns the wrapped machine's
\* entries: as many as were passed, in the same order.
C14_BatchUpdate ==
    (/\ last.op = "Update"
     /\ Len(last.args.entries) >= 1
     /\ \/ variant = "Concurrent"
        \/ variant = "OnDisk" /\ opened) =>
        /\ DelegatedOnce(last)
        /\ last.calls[1].args.entries = last.args.entries
        /\ last.ret.entries = last.calls[1].ret.entries
        /\ Len(last.ret.entries) = Len(last.args.entries)
        /\ \A i \in 1..Len(last.args.entries) :
              last.ret.entries[i].Cmd = last.args.entries[i].Cmd

C14_Witness ==
    /\ variant = "Concurrent"
    /\ last.op = "Update"
    /\ last.outcome = "return"
    /\ last.args.entries = <<Entry("c2", ZeroResult), Entry("c1", ZeroResult)>>
    /\ last.ret.entries = <<Entry("c2", "r1"), Entry("c1", ZeroResult)>>

\* ---------------------------------------------------------------- C15
\* C15: on the on-disk adapter opened is already true when the wrapped Open is
\* entered and no step sets it back, a failing wrapped Open included; so for
\* the goroutine that called Open, whatever Open returned, the gated
\* operations are handed to the wrapped machine and a further Open panics.
C15_FailedOpen ==
    [][/\ \A t \in Threads : pc'[t] \in {"stored", "invoked"} => opened'
       /\ opened => opened'
       /\ (last'.op = "Open" /\ last'.outcome = "return") => opened'
       /\ \A t \in writers :
             (pc[t] = "idle" /\ last' # last /\ last'.thread = t) =>
                /\ last'.op \in GatedOps => DelegatedOnce(last')
                /\ last'.op = "Open" => Aborted(last')]_vars

C15_Witness ==
    /\ openCalled
    /\ ~openOK
    /\ \A t \in Threads : pc[t] = "idle"
    /\ opened
    /\ last.op = "Update"
    /\ last.outcome = "return"
    /\ last.thread \in writers

\* ---------------------------------------------------------------- C17
\* C17: the on-disk adapter's Save hands the wrapped machine the context, the
\* writer and the stop channel and nothing else, its Recover the reader and
\* the stop channel and nothing else: the file collection and the file list
\* never reach the wrapped machine.
C17_NoFiles ==
    (variant = "OnDisk" /\ last.outcome = "return") =>
        /\ last.op = "Save" =>
              /\ DelegatedOnce(last)
              /\ last.args.fc # Nil
              /\ last.calls[1].args =
                    [NoArgs EXCEPT !.ctx = last.args.ctx, !.io = last.args.io,
                                   !.stopc = last.args.stopc]
        /\ last.op = "Recover" =>
              /\ DelegatedOnce(last)
              /\ last.args.fs # Nil
              /\ last.calls[1].args =
                    [NoArgs EXCEPT !.io = last.args.io, !.stopc = last.args.stopc]

C17_Witness ==
    /\ variant = "OnDisk"
    /\ last.op = "Save"
    /\ last.outcome = "return"
    /\ last.args.fc = "fc"
    /\ last.args.ctx = "ctx"
    /\ last.calls[1].args.fc = Nil
    /\ last.calls[1].args.ctx = "ctx"

\* ---------------------------------------------------------------- C16
\* a call the adapter refuses, in its current state, with a panic
Refused(op, args) ==
    CASE variant = "Regular" ->
            \/ op \in {"Open", "Sync", "Prepare"}
            \/ op = "Update" /\ Len(args.entries) # 1
            \/ op = "Save" /\ args.ctx # Nil
      [] variant = "Concurrent" -> op \in {"Open", "Sync"}
      [] variant = "OnDisk" ->
            \/ op \in GatedOps /\ ~opened
            \/ op = "Open" /\ opened

\* a call the adapter answers itself, without the wrapped machine
AnsweredLocally(op) ==
    \/ op \in {"Type", "Concurrent", "OnDisk"}
    \/ op = "GetHash" /\ ~h
    \/ op = "NALookup" /\ ~na

\* C16: on the on-disk adapter NALookup, GetHash and Close never panic,
\* opened or not, and reach the wrapped machine when the capability is there
\* (Close always); on every adapter each Close, a repeated one included, is
\* handed to the wrapped Close, and whether a call panics, is answered by the
\* adapter or is handed to the wrapped machine does not depend on a Close
\* having been made.
C16_NoClosedState ==
    [][/\ (variant = "OnDisk" /\ last'.op \in {"NALookup", "GetHash", "Close"}) =>
              /\ last'.outcome = "return"
              /\ ~AnsweredLocally(last'.op) => DelegatedOnce(last')
       /\ last'.op = "Close" => DelegatedOnce(last') /\ smClosed'
       /\ last'.op # "Close" => smClosed' = smClosed
       /\ IF Refused(last'.op, last'.args) THEN Aborted(last')
          ELSE IF AnsweredLocally(last'.op)
               THEN last'.outcome = "return" /\ last'.calls = <<>>
               ELSE DelegatedOnce(last')]_vars

C16_Witness ==
    /\ variant = "OnDisk"
    /\ ~openCalled
    /\ smClosed
    /\ h
    /\ last.op = "GetHash"
    /\ last.outcome = "return"
    /\ Len(last.calls) = 1

\* ---------------------------------------------------------------- C13
\* C13: on every adapter a Save whose stop channel is closed before the
\* transfer completes returns an error, never nil; and whenever Open, Save or
\* Recover reaches the wrapped machine, the wrapped call is handed the very
\* stop channel the caller passed.
C13_Cancellation ==
    /\ (last.op = "Save" /\ last.outcome = "return" /\ last.args.stopc = Stopped) =>
          last.err # Nil
    /\ (last.op \in {"Open", "Save", "Recover"} /\ last.outcome = "return") =>
          /\ DelegatedOnce(last)
          /\ last.args.stopc \in StopChans
          /\ last.calls[1].args.stopc = last.args.stopc

C13_Witness ==
    /\ variant = "Concurrent"
    /\ last.op = "Save"
    /\ last.outcome = "return"
    /\ last.args.stopc = Stopped
    /\ last.calls[1].args.stopc = Stopped
    /\ last.err \in SMErrors

\* ---------------------------------------------------------------- C12
\* C12: on the concurrent adapter, Prepare, then Save with the context Prepare
\* returned, then Recover of the stream on a fresh machine leave the fresh
\* machine answering Lookup (and GetHash, when hashable) as the source did at
\* the moment of Prepare, whatever Updates reach the source between Prepare
\* and Save or while Save runs; and the wrapped SaveSnapshot is entered with
\* the very context Prepare returned.
C12_RoundTrip ==
    /\ snapPc \in {"saving", "saved", "recovered"} =>
          /\ held # Nil
          /\ passed = held
    /\ (last.op = "Save" /\ last.outcome = "return") =>
          last.calls[1].args.ctx = last.args.ctx
    /\ snapPc = "recovered" =>
          /\ SM_Lookup(fresh) = SM_Lookup(atPrepare)
          /\ h => SM_GetHash(fresh) = SM_GetHash(atPrepare)

C12_Witness ==
    /\ snapPc = "recovered"
    /\ racing
    /\ atPrepare # {}
    /\ src # atPrepare
    /\ fresh = atPrepare
    /\ h

\* ---------------------------------------------------------------- C18
\* the stored keys between fk and lk, lk included when inc
RangeKeys(d, fk, lk, inc) ==
    {k \in StoredKeys(d) :
        /\ Compare(fk, k) <= 0
        /\ IF inc THEN Compare(k, lk) <= 0 ELSE Compare(k, lk) < 0}

\* C18: IterateValue(fk, lk, inc, op) leaves the store as it was and calls op
\* only on stored keys of the range (lk included iff inc), each with its
\* stored value, in strictly ascending order and skipping none from the first
\* key >= fk on; every call but the last was answered "continue"; when it
\* returns having left part of the range unvisited, op's last answer was
\* "stop" or an error; it returns op's error when op's last answer was an
\* error and nil otherwise.
C18_IterateValue ==
    [][kvLast'.op = "IterateValue" =>
          LET c == kvLast'
              n == Len(c.visited)
              R == RangeKeys(db, c.fk, c.lk, c.inc)
              V == {c.visited[i].key : i \in 1..n}
          IN /\ db' = db
             /\ c.outcome \in {"return", "panic"}
             /\ Len(c.answers) = n
             /\ V \subseteq R
             /\ \A i \in 1..n : c.visited[i].val = db[c.visited[i].key]
             /\ \A i, j \in 1..n :
                   i < j => Compare(c.visited[i].key, c.visited[j].key) < 0
             /\ \A k \in V, j \in R : Compare(j, k) < 0 => j \in V
             /\ \A i \in 1..(n - 1) : c.answers[i] = "more"
             /\ c.outcome = "return" =>
                   /\ V # R => n > 0 /\ c.answers[n] \in {"stop", "err"}
                   /\ c.err = IF n > 0 /\ c.answers[n] = "err" THEN OpErr ELSE Nil]_vars

C18_Witness ==
    /\ kvLast.op = "IterateValue"
    /\ kvLast.outcome = "return"
    /\ kvLast.inc
    /\ kvLast.err = Nil
    /\ Len(kvLast.visited) = Cardinality(Keys)
    /\ kvLast.visited[Len(kvLast.visited)].key = kvLast.lk
    /\ kvLast.answers[Len(kvLast.answers)] = "more"

\* ---------------------------------------------------------------- C19
\* C19: a RemoveEntries(fk, lk) that returns nil leaves the store without the
\* keys k with fk <= k < lk and otherwise as it was, keys and values; it
\* commits at most one batch, holding one delete for each of those keys and
\* nothing else, and none at all (returning nil) when no stored key lies in
\* the range; when the commit fails, or the iterator does, the store is
\* as it was.
C19_RemoveEntries ==
    [][kvLast'.op = "RemoveEntries" =>
          LET c == kvLast'
              R == RangeKeys(db, c.fk, c.lk, FALSE)
          IN /\ c.outcome \in {"return", "panic"}
             /\ (c.outcome = "return" /\ c.err = Nil) =>
                   db' = [k \in Keys |-> IF k \in R THEN Nil ELSE db[k]]
             /\ (c.outcome # "return" \/ c.err # Nil) => db' = db
             /\ c.outcome = "return" =>
                   /\ c.applies = IF R = {} THEN 0 ELSE 1
                   /\ R = {} => c.err = Nil
                   /\ Len(c.batch) = Cardinality(R)
                   /\ \A i \in 1..Len(c.batch) :
                         c.batch[i].kind = "del" /\ c.batch[i].key \in R
                   /\ \A k \in R : \E i \in 1..Len(c.batch) : c.batch[i].key = k
             /\ c.outcome = "panic" => c.applies = 0]_vars

C19_Witness ==
    /\ kvLast.op = "RemoveEntries"
    /\ kvLast.outcome = "return"
    /\ kvLast.err = Nil
    /\ kvLast.applies = 1
    /\ Len(kvLast.batch) > 1
    /\ db[kvLast.lk] \in Values
    /\ \A i \in 1..Len(kvLast.batch) : db[kvLast.batch[i].key] = Nil

\* ---------------------------------------------------------------- C20
\* C20: a batch's count goes up by one with each Put and each Delete, back to
\* zero with Clear, starts at zero in a batch GetWriteBatch makes, and is
\* changed by nothing else, so that Count() is the number of Puts and Deletes
\* since the batch was made or last cleared, which is the number of
\* operations it carries; a commit leaves every batch, count and operations,
\* as it was; GetWriteBatch on a context holding a batch returns that batch,
\* untouched.
C20_BatchCount ==
    [][LET c == kvLast'
           others(b) == \A o \in BatchRefs \ {b} : wbs'[o] = wbs[o]
       IN /\ \A b \in BatchRefs : wbs'[b].count = Len(wbs'[b].ops)
          /\ c.op \in {"Put", "Delete"} =>
                /\ wbs'[c.ref].count = wbs[c.ref].count + 1
                /\ others(c.ref)
          /\ c.op = "Clear" => wbs'[c.ref].count = 0 /\ others(c.ref)
          /\ c.op = "Count" => c.count = wbs[c.ref].count /\ wbs' = wbs
          /\ c.op = "CommitWriteBatch" =>
                /\ wbs' = wbs
                /\ c.batch = wbs'[c.ref].ops
                /\ c.err = Nil => db' = Apply(db, c.batch)
          /\ c.op = "GetWriteBatch" =>
                /\ got' = c.ref
                /\ IF c.ref = "wbCtx" THEN wbs' = wbs
                   ELSE wbs'[c.ref] = NewWriteBatch /\ others(c.ref)]_vars

C20_Witness ==
    /\ kvLast.op = "GetWriteBatch"
    /\ got = "wbCtx"
    /\ "wbCtx" \in committed
    /\ wbs["wbCtx"].count = MaxOps
    /\ Len(wbs["wbCtx"].ops) = MaxOps
    /\ \E k \in Keys : db[k] # Nil
====
